---------------------------- MODULE Spec2Model ----------------------------
(***************************************************************************)
(* Markdown-to-Word converter (src/app.py): the LaTeX-to-Unicode           *)
(* transliterator, the table parser and its rendering, the inline          *)
(* formatter and the line-oriented block parser.                           *)
(*                                                                         *)
(* A Python string is a sequence of characters; a character is a           *)
(* one-character string: a printable ASCII character is itself ("a",       *)
(* "\\" for a backslash), tab, newline, form feed and carriage return are   *)
(* "\t", "\n", "\f" and "\r", and every other character is written by its  *)
(* code point ("U+03B1" is GREEK SMALL LETTER ALPHA, "U+000B" the vertical *)
(* tab), and so is the backtick ("U+0060"), which a string of this         *)
(* language cannot hold.  Indices are 0-based as in the source:            *)
(* Slice(s, a, b) is s[a:b] and At(s, k) is s[k].                          *)
(*                                                                         *)
(* A run of a paragraph is [kind, text, color]: kind is the formatting the *)
(* source gives the run (Plain: size only; Bold: run.bold; Italic:         *)
(* run.italic; Code: Courier New; InlineMath / DisplayMath: Cambria Math), *)
(* color is the RGB triple set on the run, or <<>> when none is set.       *)
(***************************************************************************)
EXTENDS Integers, Sequences, FiniteSets, TLC

VARIABLES tl,    \* a call of convert_latex_to_unicode (and a second call on its result)
          fm,    \* a call of extract_and_format_text
          tb,    \* a call of parse_table and the rendering of its result
          md     \* a call of parse_markdown_to_docx

vars == <<tl, fm, tb, md>>

Idle == [pc |-> "idle"]

(***************************************************************************)
(* Bounds of the model.                                                    *)
(***************************************************************************)
MaxLatexLen == 3
MaxSegments == 3
MaxTableLines == 3
MaxDocLines == 3

(***************************************************************************)
(* Python string primitives.                                               *)
(***************************************************************************)
Min(a, b) == IF a < b THEN a ELSE b

Max(a, b) == IF a > b THEN a ELSE b

\* s[k]
At(s, k) == s[k + 1]

\* s[a:b] for 0 <= a
Slice(s, a, b) == SubSeq(s, a + 1, Min(b, Len(s)))

\* s[a:]
SliceFrom(s, a) == SubSeq(s, a + 1, Len(s))

\* s[k:k+len(p)] == p, for a non-empty p
StartsAt(s, p, k) ==
  /\ k + Len(p) <= Len(s)
  /\ s[k + 1] = p[1]
  /\ SubSeq(s, k + 1, k + Len(p)) = p

\* s.startswith(p)
StartsWith(s, p) == StartsAt(s, p, 0)

RECURSIVE Find(_, _, _)
\* s.find(p, k): the lowest index >= k at which p occurs, or -1
Find(s, p, k) ==
  IF k + Len(p) > Len(s) THEN -1
  ELSE IF StartsAt(s, p, k) THEN k
  ELSE Find(s, p, k + 1)

\* p in s
Contains(s, p) == Find(s, p, 0) # -1

\* s.count(c) for a single character c
Count(s, c) == Cardinality({k \in 1..Len(s) : s[k] = c})

RECURSIVE ReplaceFrom(_, _, _, _)
ReplaceFrom(s, old, new, k) ==
  IF k >= Len(s) THEN <<>>
  ELSE IF StartsAt(s, old, k)
       THEN new \o ReplaceFrom(s, old, new, k + Len(old))
       ELSE <<s[k + 1]>> \o ReplaceFrom(s, old, new, k + 1)

\* s.replace(old, new): every non-overlapping occurrence, left to right
Replace(s, old, new) ==
  IF Find(s, old, 0) = -1 THEN s ELSE ReplaceFrom(s, old, new, 0)

\* s.replace(old, new, 1)
ReplaceFirst(s, old, new) ==
  LET k == Find(s, old, 0)
  IN  IF k = -1 THEN s ELSE Slice(s, 0, k) \o new \o SliceFrom(s, k + Len(old))

\* the characters str.strip() removes and the regex class \s matches: those
\* for which str.isspace() holds
Whitespace ==
  { "\t", "\n", "U+000B", "\f", "\r", "U+001C", "U+001D", "U+001E",
    "U+001F", " ", "U+0085", "U+00A0", "U+1680", "U+2000", "U+2001", "U+2002",
    "U+2003", "U+2004", "U+2005", "U+2006", "U+2007", "U+2008", "U+2009", "U+200A",
    "U+2028", "U+2029", "U+202F", "U+205F", "U+3000" }

RECURSIVE LStrip(_)
LStrip(s) == IF s # <<>> /\ s[1] \in Whitespace THEN LStrip(Tail(s)) ELSE s

RECURSIVE RStrip(_)
RStrip(s) ==
  IF s # <<>> /\ s[Len(s)] \in Whitespace THEN RStrip(SubSeq(s, 1, Len(s) - 1)) ELSE s

\* s.strip()
Strip(s) == RStrip(LStrip(s))

RECURSIVE SplitFrom(_, _, _, _)
SplitFrom(s, sep, k, cur) ==
  IF k >= Len(s) THEN <<cur>>
  ELSE IF s[k + 1] = sep
       THEN <<cur>> \o SplitFrom(s, sep, k + 1, <<>>)
       ELSE SplitFrom(s, sep, k + 1, Append(cur, s[k + 1]))

\* s.split(sep) for a single character sep
Split(s, sep) == SplitFrom(s, sep, 0, <<>>)

RECURSIVE Join(_, _)
\* sep.join(parts)
Join(parts, sep) ==
  IF parts = <<>> THEN <<>>
  ELSE IF Len(parts) = 1 THEN parts[1]
  ELSE parts[1] \o sep \o Join(Tail(parts), sep)

\* the characters the regex class \d matches in a str pattern: the decimal
\* digits of every script (Unicode category Nd, Unicode 14.0), ten per line
Digits ==
  { "0", "1", "2", "3", "4", "5", "6", "7", "8", "9",
    "U+0660", "U+0661", "U+0662", "U+0663", "U+0664", "U+0665", "U+0666", "U+0667", "U+0668", "U+0669",
    "U+06F0", "U+06F1", "U+06F2", "U+06F3", "U+06F4", "U+06F5", "U+06F6", "U+06F7", "U+06F8", "U+06F9",
    "U+07C0", "U+07C1", "U+07C2", "U+07C3", "U+07C4", "U+07C5", "U+07C6", "U+07C7", "U+07C8", "U+07C9",
    "U+0966", "U+0967", "U+0968", "U+0969", "U+096A", "U+096B", "U+096C", "U+096D", "U+096E", "U+096F",
    "U+09E6", "U+09E7", "U+09E8", "U+09E9", "U+09EA", "U+09EB", "U+09EC", "U+09ED", "U+09EE", "U+09EF",
    "U+0A66", "U+0A67", "U+0A68", "U+0A69", "U+0A6A", "U+0A6B", "U+0A6C", "U+0A6D", "U+0A6E", "U+0A6F",
    "U+0AE6", "U+0AE7", "U+0AE8", "U+0AE9", "U+0AEA", "U+0AEB", "U+0AEC", "U+0AED", "U+0AEE", "U+0AEF",
    "U+0B66", "U+0B67", "U+0B68", "U+0B69", "U+0B6A", "U+0B6B", "U+0B6C", "U+0B6D", "U+0B6E", "U+0B6F",
    "U+0BE6", "U+0BE7", "U+0BE8", "U+0BE9", "U+0BEA", "U+0BEB", "U+0BEC", "U+0BED", "U+0BEE", "U+0BEF",
    "U+0C66", "U+0C67", "U+0C68", "U+0C69", "U+0C6A", "U+0C6B", "U+0C6C", "U+0C6D", "U+0C6E", "U+0C6F",
    "U+0CE6", "U+0CE7", "U+0CE8", "U+0CE9", "U+0CEA", "U+0CEB", "U+0CEC", "U+0CED", "U+0CEE", "U+0CEF",
    "U+0D66", "U+0D67", "U+0D68", "U+0D69", "U+0D6A", "U+0D6B", "U+0D6C", "U+0D6D", "U+0D6E", "U+0D6F",
    "U+0DE6", "U+0DE7", "U+0DE8", "U+0DE9", "U+0DEA", "U+0DEB", "U+0DEC", "U+0DED", "U+0DEE", "U+0DEF",
    "U+0E50", "U+0E51", "U+0E52", "U+0E53", "U+0E54", "U+0E55", "U+0E56", "U+0E57", "U+0E58", "U+0E59",
    "U+0ED0", "U+0ED1", "U+0ED2", "U+0ED3", "U+0ED4", "U+0ED5", "U+0ED6", "U+0ED7", "U+0ED8", "U+0ED9",
    "U+0F20", "U+0F21", "U+0F22", "U+0F23", "U+0F24", "U+0F25", "U+0F26", "U+0F27", "U+0F28", "U+0F29",
    "U+1040", "U+1041", "U+1042", "U+1043", "U+1044", "U+1045", "U+1046", "U+1047", "U+1048", "U+1049",
    "U+1090", "U+1091", "U+1092", "U+1093", "U+1094", "U+1095", "U+1096", "U+1097", "U+1098", "U+1099",
    "U+17E0", "U+17E1", "U+17E2", "U+17E3", "U+17E4", "U+17E5", "U+17E6", "U+17E7", "U+17E8", "U+17E9",
    "U+1810", "U+1811", "U+1812", "U+1813", "U+1814", "U+1815", "U+1816", "U+1817", "U+1818", "U+1819",
    "U+1946", "U+1947", "U+1948", "U+1949", "U+194A", "U+194B", "U+194C", "U+194D", "U+194E", "U+194F",
    "U+19D0", "U+19D1", "U+19D2", "U+19D3", "U+19D4", "U+19D5", "U+19D6", "U+19D7", "U+19D8", "U+19D9",
    "U+1A80", "U+1A81", "U+1A82", "U+1A83", "U+1A84", "U+1A85", "U+1A86", "U+1A87", "U+1A88", "U+1A89",
    "U+1A90", "U+1A91", "U+1A92", "U+1A93", "U+1A94", "U+1A95", "U+1A96", "U+1A97", "U+1A98", "U+1A99",
    "U+1B50", "U+1B51", "U+1B52", "U+1B53", "U+1B54", "U+1B55", "U+1B56", "U+1B57", "U+1B58", "U+1B59",
    "U+1BB0", "U+1BB1", "U+1BB2", "U+1BB3", "U+1BB4", "U+1BB5", "U+1BB6", "U+1BB7", "U+1BB8", "U+1BB9",
    "U+1C40", "U+1C41", "U+1C42", "U+1C43", "U+1C44", "U+1C45", "U+1C46", "U+1C47", "U+1C48", "U+1C49",
    "U+1C50", "U+1C51", "U+1C52", "U+1C53", "U+1C54", "U+1C55", "U+1C56", "U+1C57", "U+1C58", "U+1C59",
    "U+A620", "U+A621", "U+A622", "U+A623", "U+A624", "U+A625", "U+A626", "U+A627", "U+A628", "U+A629",
    "U+A8D0", "U+A8D1", "U+A8D2", "U+A8D3", "U+A8D4", "U+A8D5", "U+A8D6", "U+A8D7", "U+A8D8", "U+A8D9",
    "U+A900", "U+A901", "U+A902", "U+A903", "U+A904", "U+A905", "U+A906", "U+A907", "U+A908", "U+A909",
    "U+A9D0", "U+A9D1", "U+A9D2", "U+A9D3", "U+A9D4", "U+A9D5", "U+A9D6", "U+A9D7", "U+A9D8", "U+A9D9",
    "U+A9F0", "U+A9F1", "U+A9F2", "U+A9F3", "U+A9F4", "U+A9F5", "U+A9F6", "U+A9F7", "U+A9F8", "U+A9F9",
    "U+AA50", "U+AA51", "U+AA52", "U+AA53", "U+AA54", "U+AA55", "U+AA56", "U+AA57", "U+AA58", "U+AA59",
    "U+ABF0", "U+ABF1", "U+ABF2", "U+ABF3", "U+ABF4", "U+ABF5", "U+ABF6", "U+ABF7", "U+ABF8", "U+ABF9",
    "U+FF10", "U+FF11", "U+FF12", "U+FF13", "U+FF14", "U+FF15", "U+FF16", "U+FF17", "U+FF18", "U+FF19",
    "U+104A0", "U+104A1", "U+104A2", "U+104A3", "U+104A4", "U+104A5", "U+104A6", "U+104A7", "U+104A8", "U+104A9",
    "U+10D30", "U+10D31", "U+10D32", "U+10D33", "U+10D34", "U+10D35", "U+10D36", "U+10D37", "U+10D38", "U+10D39",
    "U+11066", "U+11067", "U+11068", "U+11069", "U+1106A", "U+1106B", "U+1106C", "U+1106D", "U+1106E", "U+1106F",
    "U+110F0", "U+110F1", "U+110F2", "U+110F3", "U+110F4", "U+110F5", "U+110F6", "U+110F7", "U+110F8", "U+110F9",
    "U+11136", "U+11137", "U+11138", "U+11139", "U+1113A", "U+1113B", "U+1113C", "U+1113D", "U+1113E", "U+1113F",
    "U+111D0", "U+111D1", "U+111D2", "U+111D3", "U+111D4", "U+111D5", "U+111D6", "U+111D7", "U+111D8", "U+111D9",
    "U+112F0", "U+112F1", "U+112F2", "U+112F3", "U+112F4", "U+112F5", "U+112F6", "U+112F7", "U+112F8", "U+112F9",
    "U+11450", "U+11451", "U+11452", "U+11453", "U+11454", "U+11455", "U+11456", "U+11457", "U+11458", "U+11459",
    "U+114D0", "U+114D1", "U+114D2", "U+114D3", "U+114D4", "U+114D5", "U+114D6", "U+114D7", "U+114D8", "U+114D9",
    "U+11650", "U+11651", "U+11652", "U+11653", "U+11654", "U+11655", "U+11656", "U+11657", "U+11658", "U+11659",
    "U+116C0", "U+116C1", "U+116C2", "U+116C3", "U+116C4", "U+116C5", "U+116C6", "U+116C7", "U+116C8", "U+116C9",
    "U+11730", "U+11731", "U+11732", "U+11733", "U+11734", "U+11735", "U+11736", "U+11737", "U+11738", "U+11739",
    "U+118E0", "U+118E1", "U+118E2", "U+118E3", "U+118E4", "U+118E5", "U+118E6", "U+118E7", "U+118E8", "U+118E9",
    "U+11950", "U+11951", "U+11952", "U+11953", "U+11954", "U+11955", "U+11956", "U+11957", "U+11958", "U+11959",
    "U+11C50", "U+11C51", "U+11C52", "U+11C53", "U+11C54", "U+11C55", "U+11C56", "U+11C57", "U+11C58", "U+11C59",
    "U+11D50", "U+11D51", "U+11D52", "U+11D53", "U+11D54", "U+11D55", "U+11D56", "U+11D57", "U+11D58", "U+11D59",
    "U+11DA0", "U+11DA1", "U+11DA2", "U+11DA3", "U+11DA4", "U+11DA5", "U+11DA6", "U+11DA7", "U+11DA8", "U+11DA9",
    "U+16A60", "U+16A61", "U+16A62", "U+16A63", "U+16A64", "U+16A65", "U+16A66", "U+16A67", "U+16A68", "U+16A69",
    "U+16AC0", "U+16AC1", "U+16AC2", "U+16AC3", "U+16AC4", "U+16AC5", "U+16AC6", "U+16AC7", "U+16AC8", "U+16AC9",
    "U+16B50", "U+16B51", "U+16B52", "U+16B53", "U+16B54", "U+16B55", "U+16B56", "U+16B57", "U+16B58", "U+16B59",
    "U+1D7CE", "U+1D7CF", "U+1D7D0", "U+1D7D1", "U+1D7D2", "U+1D7D3", "U+1D7D4", "U+1D7D5", "U+1D7D6", "U+1D7D7",
    "U+1D7D8", "U+1D7D9", "U+1D7DA", "U+1D7DB", "U+1D7DC", "U+1D7DD", "U+1D7DE", "U+1D7DF", "U+1D7E0", "U+1D7E1",
    "U+1D7E2", "U+1D7E3", "U+1D7E4", "U+1D7E5", "U+1D7E6", "U+1D7E7", "U+1D7E8", "U+1D7E9", "U+1D7EA", "U+1D7EB",
    "U+1D7EC", "U+1D7ED", "U+1D7EE", "U+1D7EF", "U+1D7F0", "U+1D7F1", "U+1D7F2", "U+1D7F3", "U+1D7F4", "U+1D7F5",
    "U+1D7F6", "U+1D7F7", "U+1D7F8", "U+1D7F9", "U+1D7FA", "U+1D7FB", "U+1D7FC", "U+1D7FD", "U+1D7FE", "U+1D7FF",
    "U+1E140", "U+1E141", "U+1E142", "U+1E143", "U+1E144", "U+1E145", "U+1E146", "U+1E147", "U+1E148", "U+1E149",
    "U+1E2F0", "U+1E2F1", "U+1E2F2", "U+1E2F3", "U+1E2F4", "U+1E2F5", "U+1E2F6", "U+1E2F7", "U+1E2F8", "U+1E2F9",
    "U+1E950", "U+1E951", "U+1E952", "U+1E953", "U+1E954", "U+1E955", "U+1E956", "U+1E957", "U+1E958", "U+1E959",
    "U+1FBF0", "U+1FBF1", "U+1FBF2", "U+1FBF3", "U+1FBF4", "U+1FBF5", "U+1FBF6", "U+1FBF7", "U+1FBF8", "U+1FBF9" }

Letters ==
  {"a", "b", "c", "d", "e", "f", "g", "h", "i", "j", "k", "l", "m",
   "n", "o", "p", "q", "r", "s", "t", "u", "v", "w", "x", "y", "z",
   "A", "B", "C", "D", "E", "F", "G", "H", "I", "J", "K", "L", "M",
   "N", "O", "P", "Q", "R", "S", "T", "U", "V", "W", "X", "Y", "Z"}

(***************************************************************************)
(* convert_latex_to_unicode                                                *)
(***************************************************************************)
BS == "\\"

\* the backtick
BT == "U+0060"

\* the literal removals and the spacing commands, in the order of the source
strip_commands ==
  << <<<<BS, "t", "e", "x", "t", "{">>, <<>>>>,
     <<<<BS, "m", "a", "t", "h", "r", "m", "{">>, <<>>>>,
     <<<<BS, "m", "a", "t", "h", "b", "f", "{">>, <<>>>>,
     <<<<BS, "h", "a", "t", "{">>, <<>>>>,
     <<<<BS, "b", "a", "r", "{">>, <<>>>>,
     <<<<BS, "t", "i", "l", "d", "e", "{">>, <<>>>>,
     <<<<BS, "b", "o", "x", "e", "d", "{">>, <<>>>>,
     <<<<BS, "l", "e", "f", "t">>, <<>>>>,
     <<<<BS, "r", "i", "g", "h", "t">>, <<>>>>,
     <<<<BS, "b", "e", "g", "i", "n", "{", "a", "l", "i", "g", "n", "e", "d", "}">>, <<>>>>,
     <<<<BS, "e", "n", "d", "{", "a", "l", "i", "g", "n", "e", "d", "}">>, <<>>>>,
     <<<<BS, ",">>, <<" ">>>>,
     <<<<BS, ";">>, <<" ">>>>,
     <<<<BS, ":">>, <<" ">>>>,
     <<<<BS, "q", "u", "a", "d">>, <<" ", " ">>>>,
     <<<<BS, "q", "q", "u", "a", "d">>, <<" ", " ", " ", " ">>>> >>

RECURSIVE ReplaceRange(_, _, _, _)
\* result = result.replace(old, new) for the pairs lo..hi, in their order: the
\* first half of the range, then the second half on the result of the first
ReplaceRange(s, pairs, lo, hi) ==
  IF lo > hi THEN s
  ELSE IF lo = hi THEN Replace(s, pairs[lo][1], pairs[lo][2])
  ELSE LET mid == (lo + hi) \div 2
           r == ReplaceRange(s, pairs, lo, mid)
       IN  IF r = <<>> THEN r ELSE ReplaceRange(r, pairs, mid + 1, hi)

\* for old, new in pairs: result = result.replace(old, new)
ReplaceEach(s, pairs) == ReplaceRange(s, pairs, 1, Len(pairs))

StripCommands(s) == ReplaceEach(s, strip_commands)

\* the condition of the loop that removes extra closing braces
ExcessBrace(s) == Count(s, "}") > Count(s, "{")

\* the count argument left out: every closing brace is removed at once
RemoveEveryBrace(s) == Replace(s, <<"}">>, <<>>)

\* one iteration of that loop
RemoveOneBrace(s) == ReplaceFirst(s, <<"}">>, <<>>)

RECURSIVE RemoveExtraBraces(_)
RemoveExtraBraces(s) ==
  IF ExcessBrace(s) THEN RemoveExtraBraces(RemoveOneBrace(s)) ELSE s

\* the lookup table, in the order the dict declares (and iterates) its keys
replacements ==
  <<
     <<<<"\\", "a", "l", "p", "h", "a">>, <<"U+03B1">>>>,
     <<<<"\\", "b", "e", "t", "a">>, <<"U+03B2">>>>,
     <<<<"\\", "g", "a", "m", "m", "a">>, <<"U+03B3">>>>,
     <<<<"\\", "d", "e", "l", "t", "a">>, <<"U+03B4">>>>,
     <<<<"\\", "e", "p", "s", "i", "l", "o", "n">>, <<"U+03B5">>>>,
     <<<<"\\", "v", "a", "r", "e", "p", "s", "i", "l", "o", "n">>, <<"U+03B5">>>>,
     <<<<"\\", "z", "e", "t", "a">>, <<"U+03B6">>>>,
     <<<<"\\", "e", "t", "a">>, <<"U+03B7">>>>,
     <<<<"\\", "t", "h", "e", "t", "a">>, <<"U+03B8">>>>,
     <<<<"\\", "v", "a", "r", "t", "h", "e", "t", "a">>, <<"U+03B8">>>>,
     <<<<"\\", "i", "o", "t", "a">>, <<"U+03B9">>>>,
     <<<<"\\", "k", "a", "p", "p", "a">>, <<"U+03BA">>>>,
     <<<<"\\", "l", "a", "m", "b", "d", "a">>, <<"U+03BB">>>>,
     <<<<"\\", "m", "u">>, <<"U+03BC">>>>,
     <<<<"\\", "n", "u">>, <<"U+03BD">>>>,
     <<<<"\\", "x", "i">>, <<"U+03BE">>>>,
     <<<<"\\", "p", "i">>, <<"U+03C0">>>>,
     <<<<"\\", "r", "h", "o">>, <<"U+03C1">>>>,
     <<<<"\\", "s", "i", "g", "m", "a">>, <<"U+03C3">>>>,
     <<<<"\\", "v", "a", "r", "s", "i", "g", "m", "a">>, <<"U+03C2">>>>,
     <<<<"\\", "t", "a", "u">>, <<"U+03C4">>>>,
     <<<<"\\", "u", "p", "s", "i", "l", "o", "n">>, <<"U+03C5">>>>,
     <<<<"\\", "p", "h", "i">>, <<"U+03C6">>>>,
     <<<<"\\", "v", "a", "r", "p", "h", "i">>, <<"U+03C6">>>>,
     <<<<"\\", "c", "h", "i">>, <<"U+03C7">>>>,
     <<<<"\\", "p", "s", "i">>, <<"U+03C8">>>>,
     <<<<"\\", "o", "m", "e", "g", "a">>, <<"U+03C9">>>>,
     <<<<"\\", "A", "l", "p", "h", "a">>, <<"U+0391">>>>,
     <<<<"\\", "B", "e", "t", "a">>, <<"U+0392">>>>,
     <<<<"\\", "G", "a", "m", "m", "a">>, <<"U+0393">>>>,
     <<<<"\\", "D", "e", "l", "t", "a">>, <<"U+0394">>>>,
     <<<<"\\", "E", "p", "s", "i", "l", "o", "n">>, <<"U+0395">>>>,
     <<<<"\\", "Z", "e", "t", "a">>, <<"U+0396">>>>,
     <<<<"\\", "E", "t", "a">>, <<"U+0397">>>>,
     <<<<"\\", "T", "h", "e", "t", "a">>, <<"U+0398">>>>,
     <<<<"\\", "I", "o", "t", "a">>, <<"U+0399">>>>,
     <<<<"\\", "K", "a", "p", "p", "a">>, <<"U+039A">>>>,
     <<<<"\\", "L", "a", "m", "b", "d", "a">>, <<"U+039B">>>>,
     <<<<"\\", "M", "u">>, <<"U+039C">>>>,
     <<<<"\\", "N", "u">>, <<"U+039D">>>>,
     <<<<"\\", "X", "i">>, <<"U+039E">>>>,
     <<<<"\\", "P", "i">>, <<"U+03A0">>>>,
     <<<<"\\", "R", "h", "o">>, <<"U+03A1">>>>,
     <<<<"\\", "S", "i", "g", "m", "a">>, <<"U+03A3">>>>,
     <<<<"\\", "T", "a", "u">>, <<"U+03A4">>>>,
     <<<<"\\", "U", "p", "s", "i", "l", "o", "n">>, <<"U+03A5">>>>,
     <<<<"\\", "P", "h", "i">>, <<"U+03A6">>>>,
     <<<<"\\", "C", "h", "i">>, <<"U+03A7">>>>,
     <<<<"\\", "P", "s", "i">>, <<"U+03A8">>>>,
     <<<<"\\", "O", "m", "e", "g", "a">>, <<"U+03A9">>>>,
     <<<<"\\", "t", "i", "m", "e", "s">>, <<"U+00D7">>>>,
     <<<<"\\", "d", "i", "v">>, <<"U+00F7">>>>,
     <<<<"\\", "p", "m">>, <<"U+00B1">>>>,
     <<<<"\\", "m", "p">>, <<"U+2213">>>>,
     <<<<"\\", "c", "d", "o", "t">>, <<"U+00B7">>>>,
     <<<<"\\", "a", "s", "t">>, <<"U+2217">>>>,
     <<<<"\\", "s", "t", "a", "r">>, <<"U+22C6">>>>,
     <<<<"\\", "l", "e", "q">>, <<"U+2264">>>>,
     <<<<"\\", "g", "e", "q">>, <<"U+2265">>>>,
     <<<<"\\", "n", "e", "q">>, <<"U+2260">>>>,
     <<<<"\\", "n", "e">>, <<"U+2260">>>>,
     <<<<"\\", "a", "p", "p", "r", "o", "x">>, <<"U+2248">>>>,
     <<<<"\\", "e", "q", "u", "i", "v">>, <<"U+2261">>>>,
     <<<<"\\", "s", "i", "m">>, <<"U+223C">>>>,
     <<<<"\\", "s", "i", "m", "e", "q">>, <<"U+2243">>>>,
     <<<<"\\", "p", "r", "o", "p", "t", "o">>, <<"U+221D">>>>,
     <<<<"\\", "l", "l">>, <<"U+226A">>>>,
     <<<<"\\", "g", "g">>, <<"U+226B">>>>,
     <<<<"\\", "r", "i", "g", "h", "t", "a", "r", "r", "o", "w">>, <<"U+2192">>>>,
     <<<<"\\", "t", "o">>, <<"U+2192">>>>,
     <<<<"\\", "l", "e", "f", "t", "a", "r", "r", "o", "w">>, <<"U+2190">>>>,
     <<<<"\\", "l", "e", "f", "t", "r", "i", "g", "h", "t", "a", "r", "r", "o", "w">>, <<"U+2194">>>>,
     <<<<"\\", "R", "i", "g", "h", "t", "a", "r", "r", "o", "w">>, <<"U+21D2">>>>,
     <<<<"\\", "L", "e", "f", "t", "a", "r", "r", "o", "w">>, <<"U+21D0">>>>,
     <<<<"\\", "L", "e", "f", "t", "r", "i", "g", "h", "t", "a", "r", "r", "o", "w">>, <<"U+21D4">>>>,
     <<<<"\\", "u", "p", "a", "r", "r", "o", "w">>, <<"U+2191">>>>,
     <<<<"\\", "d", "o", "w", "n", "a", "r", "r", "o", "w">>, <<"U+2193">>>>,
     <<<<"\\", "i", "n">>, <<"U+2208">>>>,
     <<<<"\\", "n", "o", "t", "i", "n">>, <<"U+2209">>>>,
     <<<<"\\", "n", "i">>, <<"U+220B">>>>,
     <<<<"\\", "s", "u", "b", "s", "e", "t">>, <<"U+2282">>>>,
     <<<<"\\", "s", "u", "p", "s", "e", "t">>, <<"U+2283">>>>,
     <<<<"\\", "s", "u", "b", "s", "e", "t", "e", "q">>, <<"U+2286">>>>,
     <<<<"\\", "s", "u", "p", "s", "e", "t", "e", "q">>, <<"U+2287">>>>,
     <<<<"\\", "c", "u", "p">>, <<"U+222A">>>>,
     <<<<"\\", "c", "a", "p">>, <<"U+2229">>>>,
     <<<<"\\", "e", "m", "p", "t", "y", "s", "e", "t">>, <<"U+2205">>>>,
     <<<<"\\", "v", "a", "r", "n", "o", "t", "h", "i", "n", "g">>, <<"U+2205">>>>,
     <<<<"\\", "i", "n", "f", "t", "y">>, <<"U+221E">>>>,
     <<<<"\\", "f", "o", "r", "a", "l", "l">>, <<"U+2200">>>>,
     <<<<"\\", "e", "x", "i", "s", "t", "s">>, <<"U+2203">>>>,
     <<<<"\\", "i", "n", "t">>, <<"U+222B">>>>,
     <<<<"\\", "i", "i", "n", "t">>, <<"U+222C">>>>,
     <<<<"\\", "i", "i", "i", "n", "t">>, <<"U+222D">>>>,
     <<<<"\\", "o", "i", "n", "t">>, <<"U+222E">>>>,
     <<<<"\\", "s", "u", "m">>, <<"U+2211">>>>,
     <<<<"\\", "p", "r", "o", "d">>, <<"U+220F">>>>,
     <<<<"\\", "p", "a", "r", "t", "i", "a", "l">>, <<"U+2202">>>>,
     <<<<"\\", "n", "a", "b", "l", "a">>, <<"U+2207">>>>,
     <<<<"\\", "h", "b", "a", "r">>, <<"U+210F">>>>,
     <<<<"\\", "e", "l", "l">>, <<"U+2113">>>>,
     <<<<"\\", "w", "p">>, <<"U+2118">>>>,
     <<<<"\\", "R", "e">>, <<"U+211C">>>>,
     <<<<"\\", "I", "m">>, <<"U+2111">>>>,
     <<<<"\\", "a", "l", "e", "p", "h">>, <<"U+2135">>>>,
     <<<<"\\", "b", "e", "t", "h">>, <<"U+2136">>>>,
     <<<<"\\", "s", "q", "r", "t">>, <<"U+221A">>>>,
     <<<<"\\", "a", "n", "g", "l", "e">>, <<"U+2220">>>>,
     <<<<"\\", "d", "e", "g", "r", "e", "e">>, <<"U+00B0">>>>,
     <<<<"\\", "c", "i", "r", "c">>, <<"U+2218">>>>,
     <<<<"\\", "b", "u", "l", "l", "e", "t">>, <<"U+2022">>>>,
     <<<<"\\", "l", "a", "n", "g", "l", "e">>, <<"U+27E8">>>>,
     <<<<"\\", "r", "a", "n", "g", "l", "e">>, <<"U+27E9">>>>,
     <<<<"\\", "{">>, <<"{">>>>,
     <<<<"\\", "}">>, <<"}">>>>
  >>

\* for latex, unicode_char in replacements.items(): result = result.replace(...)
ApplyReplacements(s) == ReplaceEach(s, replacements)

SQRT == "U+221A"

RECURSIVE SqrtRewrite(_, _)
\* re.sub(r'√\{([^}]+)\}', r'√(\1)', result), scanning from index k
SqrtRewrite(s, k) ==
  IF k >= Len(s) THEN <<>>
  ELSE LET q == Find(s, <<"}">>, k + 2)
       IN  IF StartsAt(s, <<SQRT, "{">>, k) /\ q > k + 2
           THEN <<SQRT, "(">> \o Slice(s, k + 2, q) \o <<")">> \o SqrtRewrite(s, q + 1)
           ELSE <<s[k + 1]>> \o SqrtRewrite(s, k + 1)

frac_open == <<BS, "f", "r", "a", "c", "{">>

RECURSIVE FracRewrite(_, _)
\* re.sub(r'\\frac\{([^}]+)\}\{([^}]+)\}', r'(\1)/(\2)', result), from index k
FracRewrite(s, k) ==
  IF k >= Len(s) THEN <<>>
  ELSE LET a0 == k + Len(frac_open)
           a1 == Find(s, <<"}">>, a0)
           b0 == a1 + 2
           b1 == Find(s, <<"}">>, b0)
       IN  IF /\ StartsAt(s, frac_open, k)
              /\ a1 > a0
              /\ StartsAt(s, <<"{">>, a1 + 1)
              /\ b1 > b0
           THEN <<"(">> \o Slice(s, a0, a1) \o <<")", "/", "(">> \o Slice(s, b0, b1)
                  \o <<")">> \o FracRewrite(s, b1 + 1)
           ELSE <<s[k + 1]>> \o FracRewrite(s, k + 1)

superscript_map(c) ==
  CASE c = "0" -> "U+2070"
    [] c = "1" -> "U+00B9"
    [] c = "2" -> "U+00B2"
    [] c = "3" -> "U+00B3"
    [] c = "4" -> "U+2074"
    [] c = "5" -> "U+2075"
    [] c = "6" -> "U+2076"
    [] c = "7" -> "U+2077"
    [] c = "8" -> "U+2078"
    [] c = "9" -> "U+2079"
    [] c = "+" -> "U+207A"
    [] c = "-" -> "U+207B"
    [] c = "=" -> "U+207C"
    [] c = "(" -> "U+207D"
    [] c = ")" -> "U+207E"
    [] c = "n" -> "U+207F"
    [] c = "i" -> "U+2071"
    [] OTHER -> c
subscript_map(c) ==
  CASE c = "0" -> "U+2080"
    [] c = "1" -> "U+2081"
    [] c = "2" -> "U+2082"
    [] c = "3" -> "U+2083"
    [] c = "4" -> "U+2084"
    [] c = "5" -> "U+2085"
    [] c = "6" -> "U+2086"
    [] c = "7" -> "U+2087"
    [] c = "8" -> "U+2088"
    [] c = "9" -> "U+2089"
    [] c = "+" -> "U+208A"
    [] c = "-" -> "U+208B"
    [] c = "=" -> "U+208C"
    [] c = "(" -> "U+208D"
    [] c = ")" -> "U+208E"
    [] c = "a" -> "U+2090"
    [] c = "e" -> "U+2091"
    [] c = "o" -> "U+2092"
    [] c = "x" -> "U+2093"
    [] c = "h" -> "U+2095"
    [] c = "k" -> "U+2096"
    [] c = "l" -> "U+2097"
    [] c = "m" -> "U+2098"
    [] c = "n" -> "U+2099"
    [] c = "p" -> "U+209A"
    [] c = "s" -> "U+209B"
    [] c = "t" -> "U+209C"
    [] OTHER -> c

\* ''.join(superscript_map.get(c, c) for c in text)
convert_superscript(t) == [k \in 1..Len(t) |-> superscript_map(t[k])]

\* ''.join(subscript_map.get(c, c) for c in text)
convert_subscript(t) == [k \in 1..Len(t) |-> subscript_map(t[k])]

ConvertScript(mark, t) == IF mark = "^" THEN convert_superscript(t) ELSE convert_subscript(t)

RECURSIVE ScriptBraced(_, _, _)
\* re.sub(r'\^\{([^}]+)\}', convert_superscript, result) (mark "^"), and the
\* same for subscripts (mark "_"), from index k
ScriptBraced(s, mark, k) ==
  IF k >= Len(s) THEN <<>>
  ELSE LET q == Find(s, <<"}">>, k + 2)
       IN  IF StartsAt(s, <<mark, "{">>, k) /\ q > k + 2
           THEN ConvertScript(mark, Slice(s, k + 2, q)) \o ScriptBraced(s, mark, q + 1)
           ELSE <<s[k + 1]>> \o ScriptBraced(s, mark, k + 1)

RECURSIVE ScriptDigit(_, _, _)
\* re.sub(r'\^(\d)', convert_superscript, result), and the same for subscripts
ScriptDigit(s, mark, k) ==
  IF k >= Len(s) THEN <<>>
  ELSE IF s[k + 1] = mark /\ k + 1 < Len(s) /\ s[k + 2] \in Digits
       THEN ConvertScript(mark, <<s[k + 2]>>) \o ScriptDigit(s, mark, k + 2)
       ELSE <<s[k + 1]>> \o ScriptDigit(s, mark, k + 1)

\* the square root, fraction, superscript and subscript rewrites, in order
Rewrites(s) ==
  LET r1 == SqrtRewrite(s, 0)
      r2 == FracRewrite(r1, 0)
      r3 == ScriptBraced(r2, "^", 0)
      r4 == ScriptDigit(r3, "^", 0)
      r5 == ScriptBraced(r4, "_", 0)
  IN  ScriptDigit(r5, "_", 0)

RECURSIVE SkipLetters(_, _)
SkipLetters(s, k) == IF k < Len(s) /\ s[k + 1] \in Letters THEN SkipLetters(s, k + 1) ELSE k

RECURSIVE RemoveCommands(_, _)
\* re.sub(r'\\[a-zA-Z]+', '', result), from index k
RemoveCommands(s, k) ==
  IF k >= Len(s) THEN <<>>
  ELSE IF s[k + 1] = BS /\ k + 1 < Len(s) /\ s[k + 2] \in Letters
       THEN RemoveCommands(s, SkipLetters(s, k + 1))
       ELSE <<s[k + 1]>> \o RemoveCommands(s, k + 1)

\* drop the remaining braces, the remaining commands and backslashes, and strip
CleanUp(s) ==
  LET r1 == Replace(Replace(s, <<"{">>, <<>>), <<"}">>, <<>>)
      r2 == RemoveCommands(r1, 0)
  IN  Strip(Replace(r2, <<BS>>, <<>>))

convert_latex_to_unicode(latex_text) ==
  CleanUp(Rewrites(ApplyReplacements(RemoveExtraBraces(StripCommands(latex_text)))))

(***************************************************************************)
(* A call of convert_latex_to_unicode, phase by phase, followed by a       *)
(* second call on the string the first one returned.                       *)
(***************************************************************************)
LatexAlphabet == {BS, "^", "_", "{", "}", "2", "a", " "}

\* the strings over S of length n
StringsOfLen(S, n) == [1..n -> S]

\* the strings over S of length at most n
StringsUpTo(S, n) == UNION {StringsOfLen(S, k) : k \in 0..n}

LatexKeys == {replacements[k][1] : k \in 1..Len(replacements)}

LatexInputs == LatexKeys \cup StringsUpTo(LatexAlphabet, MaxLatexLen)

TlInit ==
  /\ tl \in {[pc |-> "start", latex_text |-> s, result |-> s, pass |-> 1, first |-> <<>>] :
               s \in LatexInputs}
  /\ fm = Idle
  /\ tb = Idle
  /\ md = Idle

\* result = latex_text with the formatting and spacing commands replaced
TlStripCommands ==
  /\ tl.pc = "start"
  /\ tl' = [tl EXCEPT !.pc = "braces", !.result = StripCommands(tl.latex_text)]
  /\ UNCHANGED <<fm, tb, md>>

\* one iteration of: while result.count('}') > result.count('{')
TlRemoveBrace ==
  /\ tl.pc = "braces"
  /\ ExcessBrace(tl.result)
  /\ tl' = [tl EXCEPT !.result = RemoveOneBrace(tl.result)]
  /\ UNCHANGED <<fm, tb, md>>

\* the loop over replacements.items()
TlApplyReplacements ==
  /\ tl.pc = "braces"
  /\ ~ExcessBrace(tl.result)
  /\ tl' = [tl EXCEPT !.pc = "rewrite", !.result = ApplyReplacements(tl.result)]
  /\ UNCHANGED <<fm, tb, md>>

TlRewrites ==
  /\ tl.pc = "rewrite"
  /\ tl' = [tl EXCEPT !.pc = "clean", !.result = Rewrites(tl.result)]
  /\ UNCHANGED <<fm, tb, md>>

\* the clean-up and return result.strip()
TlReturn ==
  /\ tl.pc = "clean"
  /\ tl' = [tl EXCEPT !.pc = "done", !.result = CleanUp(tl.result)]
  /\ UNCHANGED <<fm, tb, md>>

\* the caller passes the returned string to convert_latex_to_unicode again
TlAgain ==
  /\ tl.pc = "done"
  /\ tl.pass = 1
  /\ tl' = [pc |-> "start", latex_text |-> tl.result, result |-> tl.result,
            pass |-> 2, first |-> tl.result]
  /\ UNCHANGED <<fm, tb, md>>

TlNext ==
  \/ TlStripCommands
  \/ TlRemoveBrace
  \/ TlApplyReplacements
  \/ TlRewrites
  \/ TlReturn
  \/ TlAgain

SpecTranslit == TlInit /\ [][TlNext]_vars

\* the keys of the lookup table that name a symbol: all but the two escaped
\* braces that end the table
SymbolEntries == {k \in 1..Len(replacements) : replacements[k][2] \notin {<<"{">>, <<"}">>}}

(* C3: for every symbol command key K of the lookup table,                 *)
(* convert_latex_to_unicode(K) is exactly the one character the table      *)
(* assigns to K.                                                           *)
C3_KeyYieldsItsSymbol ==
  (tl.pc = "done" /\ tl.pass = 1) =>
     \A k \in SymbolEntries :
        replacements[k][1] = tl.latex_text => tl.result = replacements[k][2]

(* C9: converting the result of a conversion again returns it unchanged.   *)
C9_Idempotent ==
  (tl.pc = "done" /\ tl.pass = 2) => tl.result = tl.first

(***************************************************************************)
(* extract_and_format_text: the runs added to a paragraph for one text.    *)
(***************************************************************************)
NoColor == <<>>

\* RGBColor(0, 120, 0)
MathColor == <<0, 120, 0>>

\* RGBColor(220, 50, 50)
CodeColor == <<220, 50, 50>>

Run(kind, text, color) == [kind |-> kind, text |-> text, color |-> color]

\* paragraph.add_run(current_text), size only
PlainRun(t) == Run("Plain", t, NoColor)

\* if current_text: add it as a run and reset it (dropped variant: the
\* pending text is reset without being added)
FlushDropping(st) == [st EXCEPT !.current_text = <<>>]

\* unguarded variant: the pending text is added as a run even when it is empty
FlushAlways(st) ==
  [st EXCEPT !.runs = Append(@, PlainRun(st.current_text)), !.current_text = <<>>]

\* if current_text: run = paragraph.add_run(current_text); current_text = ""
Flush(st) ==
  IF st.current_text # <<>>
  THEN [st EXCEPT !.runs = Append(@, PlainRun(st.current_text)), !.current_text = <<>>]
  ELSE st

\* a run is added and the cursor moves past the closing delimiter
Emit(st, run, next) ==
  [st EXCEPT !.runs = Append(@, run), !.i = next, !.processed = TRUE]

display_open == <<BS, "[">>

display_close == <<BS, "]">>

inline_open == <<BS, "(">>

inline_close == <<BS, ")">>

\* '\n' + unicode_math + '\n', in Cambria Math, green, bold
DisplayMathRun(math_content) ==
  Run("DisplayMath", <<"\n">> \o convert_latex_to_unicode(math_content) \o <<"\n">>, MathColor)

\* ' ' + unicode_math + ' ', in Cambria Math, green, bold
InlineMathRun(math_content) ==
  Run("InlineMath", <<" ">> \o convert_latex_to_unicode(math_content) \o <<" ">>, MathColor)

\* check for display math \[ ... \]
DisplayMathBranch(text, preserve_math, st) ==
  IF preserve_math /\ Slice(text, st.i, st.i + 2) = display_open
  THEN LET end == Find(text, display_close, st.i + 2)
       IN  IF end # -1
           THEN Emit(Flush(st), DisplayMathRun(Strip(Slice(text, st.i + 2, end))), end + 2)
           ELSE Flush(st)
  ELSE st

\* check for inline math \( ... \)
InlineMathBranch(text, preserve_math, st) ==
  IF ~st.processed /\ preserve_math /\ Slice(text, st.i, st.i + 2) = inline_open
  THEN LET end == Find(text, inline_close, st.i + 2)
       IN  IF end # -1
           THEN Emit(Flush(st), InlineMathRun(Strip(Slice(text, st.i + 2, end))), end + 2)
           ELSE Flush(st)
  ELSE st

\* check for bold **text**
BoldBranch(text, st) ==
  IF ~st.processed /\ Slice(text, st.i, st.i + 2) = <<"*", "*">>
  THEN LET end == Find(text, <<"*", "*">>, st.i + 2)
       IN  IF end # -1 /\ end > st.i + 2
           THEN Emit(Flush(st), Run("Bold", Slice(text, st.i + 2, end), NoColor), end + 2)
           ELSE Flush(st)
  ELSE st

\* text[k] is an asterisk with no asterisk right before or right after it
SingleStar(text, k) ==
  /\ At(text, k) = "*"
  /\ (k + 1 >= Len(text) \/ At(text, k + 1) # "*")
  /\ (k = 0 \/ At(text, k - 1) # "*")

RECURSIVE NextSingleStar(_, _)
\* the inner while loop: the first index >= end of a single asterisk, or -1
NextSingleStar(text, end) ==
  IF end >= Len(text) THEN -1
  ELSE IF SingleStar(text, end) THEN end
  ELSE NextSingleStar(text, end + 1)

\* check for italic *text* (single asterisk, not part of **)
ItalicBranch(text, st) ==
  IF ~st.processed /\ At(text, st.i) = "*" /\ SingleStar(text, st.i)
  THEN LET end == NextSingleStar(text, st.i + 1)
           italic_text == Slice(text, st.i + 1, end)
       IN  IF end # -1 /\ italic_text # <<>>
           THEN Emit(Flush(st), Run("Italic", italic_text, NoColor), end + 1)
           ELSE Flush(st)
  ELSE st

\* check for inline code (text between backticks)
CodeBranch(text, st) ==
  IF ~st.processed /\ At(text, st.i) = BT
  THEN LET end == Find(text, <<BT>>, st.i + 1)
       IN  IF end # -1
           THEN Emit(Flush(st), Run("Code", Slice(text, st.i + 1, end), CodeColor), end + 1)
           ELSE Flush(st)
  ELSE st

\* if nothing was processed, add the character to current_text
PlainBranch(text, st) ==
  IF ~st.processed
  THEN [st EXCEPT !.current_text = Append(@, At(text, st.i)), !.i = @ + 1]
  ELSE st

\* one iteration of the loop: while i < len(text)
FormatIteration(text, preserve_math, st) ==
  LET s0 == [st EXCEPT !.processed = FALSE]
      s1 == DisplayMathBranch(text, preserve_math, s0)
      s2 == InlineMathBranch(text, preserve_math, s1)
      s3 == BoldBranch(text, s2)
      s4 == ItalicBranch(text, s3)
      s5 == CodeBranch(text, s4)
  IN  PlainBranch(text, s5)

RECURSIVE FormatLoop(_, _, _)
FormatLoop(text, preserve_math, st) ==
  IF st.i < Len(text)
  THEN FormatLoop(text, preserve_math, FormatIteration(text, preserve_math, st))
  ELSE st

FormatStart == [i |-> 0, current_text |-> <<>>, runs |-> <<>>, processed |-> FALSE]

\* the runs extract_and_format_text adds to an empty paragraph
extract_and_format_text(text, preserve_math) ==
  Flush(FormatLoop(text, preserve_math, FormatStart)).runs

(***************************************************************************)
(* A call of extract_and_format_text, one loop iteration at a time.        *)
(***************************************************************************)
InlineTokens ==
  { <<"a">>, <<" ">>, <<"*">>, <<"*", "*">>, <<BT>>,
    inline_open, inline_close, display_open, display_close,
    <<"*", "*", "b", "*", "*">>, <<"*", "i", "*">>, <<BT, "c", BT>> }

RECURSIVE Concat(_)
\* the concatenation of a sequence of strings
Concat(parts) == IF parts = <<>> THEN <<>> ELSE parts[1] \o Concat(Tail(parts))

\* the line: **bold** and *italic* and (in backticks) code
ExampleStyled ==
  <<"*", "*", "b", "o", "l", "d", "*", "*", " ", "a", "n", "d", " ",
    "*", "i", "t", "a", "l", "i", "c", "*", " ", "a", "n", "d", " ",
    BT, "c", "o", "d", "e", BT>>

\* x \( \alpha \) y
ExampleMath ==
  <<"x", " ", BS, "(", " ", BS, "a", "l", "p", "h", "a", " ", BS, ")", " ", "y">>

InlineInputs ==
  {Concat(ts) : ts \in StringsUpTo(InlineTokens, MaxSegments)}
    \cup {ExampleStyled, ExampleMath}

FmInit ==
  /\ fm \in {[pc |-> "loop", text |-> t, preserve_math |-> pm, i |-> 0,
              current_text |-> <<>>, runs |-> <<>>, processed |-> FALSE] :
               t \in InlineInputs, pm \in BOOLEAN}
  /\ tl = Idle
  /\ tb = Idle
  /\ md = Idle

\* one iteration of: while i < len(text)
FmIterate ==
  /\ fm.pc = "loop"
  /\ fm.i < Len(fm.text)
  /\ fm' = FormatIteration(fm.text, fm.preserve_math, fm)
  /\ UNCHANGED <<tl, tb, md>>

\* the loop ends: add any remaining text, and return
FmReturn ==
  /\ fm.pc = "loop"
  /\ fm.i >= Len(fm.text)
  /\ fm' = [Flush(fm) EXCEPT !.pc = "done"]
  /\ UNCHANGED <<tl, tb, md>>

FmNext ==
  \/ FmIterate
  \/ FmReturn

SpecInline == FmInit /\ [][FmNext]_vars

\* the source text a run of the given kind stands for, math runs aside
Rewrap(run) ==
  CASE run.kind = "Bold" -> <<"*", "*">> \o run.text \o <<"*", "*">>
    [] run.kind = "Italic" -> <<"*">> \o run.text \o <<"*">>
    [] run.kind = "Code" -> <<BT>> \o run.text \o <<BT>>
    [] OTHER -> run.text

RECURSIVE Reconstructs(_, _, _, _, _)
\* text[k:] is the runs from the j-th on, each re-wrapped in its delimiters; a
\* math run stands for \( m \) or \[ m \] whose m it transliterates: as it is
\* (padded = FALSE), or trimmed first and then padded with a space (inline) or
\* a newline (display) on each side (padded = TRUE)
Reconstructs(runs, j, text, k, padded) ==
  IF j > Len(runs) THEN k = Len(text)
  ELSE LET run == runs[j]
           inline == run.kind = "InlineMath"
           open == IF inline THEN inline_open ELSE display_open
           close == IF inline THEN inline_close ELSE display_close
           pad == IF inline THEN <<" ">> ELSE <<"\n">>
           src == Rewrap(run)
       IN  IF run.kind \in {"InlineMath", "DisplayMath"}
           THEN /\ StartsAt(text, open, k)
                /\ \E e \in (k + 2)..(Len(text) - 2) :
                     /\ StartsAt(text, close, e)
                     /\ run.text =
                          IF padded
                          THEN pad \o convert_latex_to_unicode(Strip(Slice(text, k + 2, e))) \o pad
                          ELSE convert_latex_to_unicode(Slice(text, k + 2, e))
                     /\ Reconstructs(runs, j + 1, text, e + 2, padded)
           ELSE /\ src # <<>>
                /\ StartsAt(text, src, k)
                /\ Reconstructs(runs, j + 1, text, k + Len(src), padded)

(* C4 as stated: the runs reconstruct the line, each Bold/Italic/Code run  *)
(* re-wrapped in its delimiters and each math run being the                *)
(* transliteration of the text between its delimiters.                     *)
C4_ReconstructsExactly ==
  fm.pc = "done" => Reconstructs(fm.runs, 1, fm.text, 0, FALSE)

(* C4 as amended: the runs reconstruct the line, each Bold/Italic/Code run *)
(* re-wrapped in its delimiters and each math run being the                *)
(* transliteration of the trimmed text between its delimiters, padded with *)
(* one space (inline) or one newline (display) on each side.               *)
C4_ReconstructsPadded ==
  fm.pc = "done" => Reconstructs(fm.runs, 1, fm.text, 0, TRUE)

C4_Witness ==
  /\ fm.pc = "done"
  /\ fm.text = ExampleMath
  /\ fm.preserve_math
  /\ Len(fm.runs) = 3
  /\ fm.runs[2].kind = "InlineMath"

\* an opening delimiter at index k with no closing counterpart later in the line
UnmatchedOpener(text, preserve_math, k) ==
  \/ preserve_math /\ StartsAt(text, display_open, k) /\ Find(text, display_close, k + 2) = -1
  \/ preserve_math /\ StartsAt(text, inline_open, k) /\ Find(text, inline_close, k + 2) = -1
  \/ StartsAt(text, <<"*", "*">>, k) /\ Find(text, <<"*", "*">>, k + 2) = -1
  \/ SingleStar(text, k) /\ NextSingleStar(text, k + 1) = -1
  \/ At(text, k) = BT /\ Find(text, <<BT>>, k + 1) = -1

(* C5: an opening delimiter with no closing counterpart later in the line  *)
(* adds no run; its character joins the plain run being accumulated, which *)
(* the failed match neither ends nor splits.                               *)
C5_UnmatchedJoinsPlainRun ==
  [][ (fm.pc = "loop" /\ fm.i < Len(fm.text)
         /\ UnmatchedOpener(fm.text, fm.preserve_math, fm.i))
       => (/\ fm'.runs = fm.runs
           /\ fm'.current_text = Append(fm.current_text, At(fm.text, fm.i))) ]_vars

\* a character that is no delimiter character
PlainChar(c) == c \notin {"*", BT, BS}

RECURSIVE PlainEnd(_, _)
\* the end of the stretch of plain characters that starts at index k
PlainEnd(s, k) == IF k < Len(s) /\ PlainChar(s[k + 1]) THEN PlainEnd(s, k + 1) ELSE k

Malformed == <<[kind |-> "Malformed", text |-> <<>>]>>

RECURSIVE WellFormedPieces(_, _)
\* the pieces of s[k:] when it is made of bold, italic and code segments (content
\* non-empty, of plain characters) separated by non-empty plain text:
\* <<[kind, text], ...>>, or Malformed when it is not
WellFormedPieces(s, k) ==
  IF k >= Len(s) THEN <<>>
  ELSE LET open == IF StartsAt(s, <<"*", "*">>, k) THEN <<"*", "*">> ELSE <<s[k + 1]>>
           kind == CASE open = <<"*", "*">> -> "Bold"
                     [] open = <<"*">> -> "Italic"
                     [] open = <<BT>> -> "Code"
                     [] OTHER -> "Plain"
           from == IF kind = "Plain" THEN k ELSE k + Len(open)
           to == PlainEnd(s, from)
           next == IF kind = "Plain" THEN to ELSE to + Len(open)
           ok == /\ to > from
                 /\ kind # "Plain" => /\ StartsAt(s, open, to)
                                      /\ (next >= Len(s) \/ PlainChar(s[next + 1]))
           rest == WellFormedPieces(s, next)
       IN  IF ok /\ rest # Malformed
           THEN <<[kind |-> kind, text |-> Slice(s, from, to)]>> \o rest
           ELSE Malformed

\* the run the formatter is to add for a piece
PieceRun(p) == Run(p.kind, p.text, IF p.kind = "Code" THEN CodeColor ELSE NoColor)

(* C6: for a line made only of well-formed, non-nested bold, italic and    *)
(* code segments separated by plain text, the runs are, in source order, one *)
(* Bold/Italic/Code run per segment with exactly the enclosed text and one *)
(* Plain run per non-empty plain stretch, and no Plain run is empty.       *)
C6_OneRunPerSegment ==
  LET pieces == WellFormedPieces(fm.text, 0)
  IN  (fm.pc = "done" /\ pieces # Malformed) =>
        /\ fm.runs = [j \in 1..Len(pieces) |-> PieceRun(pieces[j])]
        /\ \A j \in 1..Len(fm.runs) : fm.runs[j].kind = "Plain" => fm.runs[j].text # <<>>

ExampleStyledRuns ==
  << Run("Bold", <<"b", "o", "l", "d">>, NoColor),
     PlainRun(<<" ", "a", "n", "d", " ">>),
     Run("Italic", <<"i", "t", "a", "l", "i", "c">>, NoColor),
     PlainRun(<<" ", "a", "n", "d", " ">>),
     Run("Code", <<"c", "o", "d", "e">>, CodeColor) >>

C6_Witness ==
  /\ fm.pc = "done"
  /\ fm.text = ExampleStyled
  /\ fm.runs = ExampleStyledRuns

(***************************************************************************)
(* parse_table, and the table the block parser adds for its result.        *)
(***************************************************************************)
\* '|' in line
HasPipe(line) == Contains(line, <<"|">>)

RECURSIVE RunEnd(_, _)
\* while idx < len(lines) and '|' in lines[idx]: idx += 1
RunEnd(lines, idx) ==
  IF idx < Len(lines) /\ HasPipe(lines[idx + 1]) THEN RunEnd(lines, idx + 1) ELSE idx

NonEmpty(cell) == cell # <<>>

\* [cell.strip() for cell in line.split('|') if cell.strip()]
Cells(line) ==
  LET parts == Split(line, "|")
  IN  SelectSeq([k \in 1..Len(parts) |-> Strip(parts[k])], NonEmpty)

\* table_lines[1:]: the separator line is taken for a body row
BodyLinesWithSeparator(table_lines) == SubSeq(table_lines, 2, Len(table_lines))

\* table_lines[2:]
BodyLines(table_lines) == SubSeq(table_lines, 3, Len(table_lines))

\* the rows of the body lines, a line without cells giving no row
Rows(body) == SelectSeq([k \in 1..Len(body) |-> Cells(body[k])], NonEmpty)

\* the table_data that parse_table returns for no table
None == [none |-> TRUE]

\* (table_data, end index) as [table_data, end_idx]
parse_table(lines, start_idx) ==
  LET idx == RunEnd(lines, start_idx)
      table_lines == Slice(lines, start_idx, idx)
  IN  IF Len(table_lines) < 2
      THEN [table_data |-> None, end_idx |-> start_idx]
      ELSE [table_data |-> [headers |-> Cells(table_lines[1]),
                            rows |-> Rows(BodyLines(table_lines))],
            end_idx |-> idx]

\* doc.add_table(rows, cols): a grid of empty cells
AddTable(rows, cols) ==
  [kind |-> "Table", rows |-> rows, cols |-> cols,
   cells |-> [r \in 1..rows |-> [c \in 1..cols |-> <<>>]]]

\* for idx, header in enumerate(headers): hdr_cells[idx].text = header
HeaderWrites(headers) ==
  [k \in 1..Len(headers) |-> [row |-> 0, col |-> k - 1, text |-> headers[k]]]

\* the bounds check left out: every cell of the row is written
ColumnAlwaysInRange(col_idx, ncells) == TRUE

\* if col_idx < len(row_cells)
ColumnInRange(col_idx, ncells) == col_idx < ncells

\* the writes of the body row row_idx, in order: row_cells[col_idx].text =
\* cell_data for each cell of row_data that passes the bounds check
RowWrites(row_idx, row_data, ncells) ==
  LET InRange(w) == ColumnInRange(w.col, ncells)
  IN  SelectSeq([k \in 1..Len(row_data) |->
                   [row |-> row_idx + 1, col |-> k - 1, text |-> row_data[k]]],
                InRange)

\* row_cells[col_idx] raises an IndexError outside the cells of the row
WriteFails(table, w) == w.col >= table.cols

RECURSIVE ApplyWrites(_, _)
\* the table after the writes, up to the first one that fails
ApplyWrites(table, writes) ==
  IF writes = <<>> THEN table
  ELSE LET w == writes[1]
       IN  IF WriteFails(table, w) THEN table
           ELSE ApplyWrites([table EXCEPT !.cells[w.row + 1][w.col + 1] = w.text],
                            Tail(writes))

RECURSIVE AllRowWrites(_, _, _)
\* the writes of the body rows from row_idx on
AllRowWrites(rows, row_idx, ncells) ==
  IF row_idx >= Len(rows) THEN <<>>
  ELSE RowWrites(row_idx, rows[row_idx + 1], ncells) \o AllRowWrites(rows, row_idx + 1, ncells)

\* the table added for table_data, headers and rows written
RenderTable(table_data) ==
  LET table == AddTable(1 + Len(table_data.rows), Len(table_data.headers))
  IN  ApplyWrites(ApplyWrites(table, HeaderWrites(table_data.headers)),
                  AllRowWrites(table_data.rows, 0, table.cols))

(***************************************************************************)
(* A call of parse_table(lines, start_idx), followed, when it returns a    *)
(* table, by the table branch of the block parser adding the table: the    *)
(* grid, the header row, then one body row at a time.                      *)
(***************************************************************************)
TableLines ==
  { <<"|", "A", "|", "B", "|">>,
    <<"|", "-", "|">>,
    <<"|", " ", "1", " ", "|">>,
    <<"1", "|", "2", "|", "3">>,
    <<"|">>,
    <<"x">>,
    <<>> }

\* | A | B |, |---|---|, | 1 | 2 |
ExampleTable ==
  << <<"|", " ", "A", " ", "|", " ", "B", " ", "|">>,
     <<"|", "-", "-", "-", "|", "-", "-", "-", "|">>,
     <<"|", " ", "1", " ", "|", " ", "2", " ", "|">> >>

\* a header of two cells, a separator, a row of three cells and a row of one
ExampleRagged ==
  << <<"|", "A", "|", "B", "|">>,
     <<"|", "-", "|">>,
     <<"1", "|", "2", "|", "3">>,
     <<"|", " ", "1", " ", "|">> >>

TableInputs == StringsUpTo(TableLines, MaxTableLines) \cup {ExampleTable, ExampleRagged}

TbInit ==
  /\ tb \in {[pc |-> "start", lines |-> ls, start_idx |-> s, table_data |-> None,
              end_idx |-> s, table |-> None, row_idx |-> 0, writes |-> <<>>] :
               ls \in TableInputs, s \in 0..MaxTableLines}
  /\ tb.start_idx <= Len(tb.lines)
  /\ tl = Idle
  /\ fm = Idle
  /\ md = Idle

\* table_data, end_idx = parse_table(lines, i), and: if table_data
TbParseTable ==
  /\ tb.pc = "start"
  /\ LET res == parse_table(tb.lines, tb.start_idx)
     IN  tb' = [tb EXCEPT !.table_data = res.table_data, !.end_idx = res.end_idx,
                          !.pc = IF res.table_data = None THEN "none" ELSE "add"]
  /\ UNCHANGED <<tl, fm, md>>

\* table = doc.add_table(rows=1 + len(rows), cols=len(headers))
TbAddTable ==
  /\ tb.pc = "add"
  /\ tb' = [tb EXCEPT !.table = AddTable(1 + Len(tb.table_data.rows), Len(tb.table_data.headers)),
                      !.pc = "headers"]
  /\ UNCHANGED <<tl, fm, md>>

\* add headers
TbHeaders ==
  /\ tb.pc = "headers"
  /\ LET ws == HeaderWrites(tb.table_data.headers)
     IN  tb' = [tb EXCEPT !.table = ApplyWrites(tb.table, ws), !.writes = ws, !.pc = "rows"]
  /\ UNCHANGED <<tl, fm, md>>

\* one iteration of: for row_idx, row_data in enumerate(table_data['rows'])
TbRow ==
  /\ tb.pc = "rows"
  /\ tb.row_idx < Len(tb.table_data.rows)
  /\ LET ws == RowWrites(tb.row_idx, tb.table_data.rows[tb.row_idx + 1], tb.table.cols)
     IN  tb' = [tb EXCEPT !.table = ApplyWrites(tb.table, ws),
                          !.writes = @ \o ws,
                          !.row_idx = @ + 1,
                          !.pc = IF \E k \in 1..Len(ws) : WriteFails(tb.table, ws[k])
                                 THEN "error" ELSE "rows"]
  /\ UNCHANGED <<tl, fm, md>>

\* the rows are written: i = end_idx
TbDone ==
  /\ tb.pc = "rows"
  /\ tb.row_idx >= Len(tb.table_data.rows)
  /\ tb' = [tb EXCEPT !.pc = "done"]
  /\ UNCHANGED <<tl, fm, md>>

TbNext ==
  \/ TbParseTable
  \/ TbAddTable
  \/ TbHeaders
  \/ TbRow
  \/ TbDone

SpecTable == TbInit /\ [][TbNext]_vars

\* the length of the maximal run of lines with a pipe that begins at start
PipeRun(lines, start) ==
  CHOOSE n \in 0..(Len(lines) - start) :
    /\ \A k \in 1..n : \E c \in 1..Len(lines[start + k]) : lines[start + k][c] = "|"
    /\ \/ n = Len(lines) - start
       \/ \A c \in 1..Len(lines[start + n + 1]) : lines[start + n + 1][c] # "|"

(* C7: parse_table collects the maximal run of lines with a pipe that      *)
(* begins at start.  A run of fewer than 2 lines gives (none, start).      *)
(* Otherwise the headers are the trimmed non-empty cells of the first      *)
(* line, the second line is discarded, the rows are the trimmed non-empty  *)
(* cells of each later line of the run that has any, and the end index is  *)
(* start + the length of the run.                                          *)
C7_ParseTable ==
  tb.pc \notin {"idle", "start"} =>
    LET n == PipeRun(tb.lines, tb.start_idx)
        later == [k \in 1..(n - 2) |-> Cells(tb.lines[tb.start_idx + 2 + k])]
    IN  IF n < 2
        THEN tb.table_data = None /\ tb.end_idx = tb.start_idx
        ELSE /\ tb.table_data # None
             /\ tb.table_data.headers = Cells(tb.lines[tb.start_idx + 1])
             /\ tb.table_data.rows = SelectSeq(later, NonEmpty)
             /\ tb.end_idx = tb.start_idx + n

C7_Witness ==
  /\ tb.pc = "add"
  /\ tb.lines = ExampleTable
  /\ tb.start_idx = 0
  /\ tb.table_data = [headers |-> << <<"A">>, <<"B">> >>, rows |-> << << <<"1">>, <<"2">> >> >>]
  /\ tb.end_idx = 3

(* C8: the grid has len(headers) columns and 1 + len(rows) rows; the cell  *)
(* at position j of a body row is written to column j if and only if       *)
(* j < len(headers); columns for which a short row has no cell stay empty; *)
(* no write targets a column outside the grid and no row raises an error.  *)
C8_BoundsCheckedRows ==
  /\ tb.pc # "error"
  /\ tb.pc = "done" =>
       LET headers == tb.table_data.headers
           rows == tb.table_data.rows
           cells == tb.table.cells
       IN  /\ tb.table.cols = Len(headers)
           /\ tb.table.rows = 1 + Len(rows)
           /\ Len(cells) = 1 + Len(rows)
           /\ \A r \in 1..Len(cells) : Len(cells[r]) = Len(headers)
           /\ \A r \in 1..Len(rows) : \A j \in 0..(Len(rows[r]) - 1) :
                 (j < Len(headers)) <=>
                    \E k \in 1..Len(tb.writes) :
                       tb.writes[k] = [row |-> r, col |-> j, text |-> rows[r][j + 1]]
           /\ \A r \in 1..Len(rows) : \A c \in 1..Len(headers) :
                 cells[r + 1][c] = IF c <= Len(rows[r]) THEN rows[r][c] ELSE <<>>
           /\ \A k \in 1..Len(tb.writes) : tb.writes[k].col < Len(headers)

C8_Witness ==
  /\ tb.pc = "done"
  /\ tb.lines = ExampleRagged
  /\ tb.start_idx = 0
  /\ tb.table.cells = << << <<"A">>, <<"B">> >>,
                         << <<"1">>, <<"2">> >>,
                         << <<"1">>, <<>> >> >>

(***************************************************************************)
(* parse_markdown_to_docx.  The document is the sequence of blocks added   *)
(* to it, each tagged by what its call site adds: Heading (level 0 is the  *)
(* title), Paragraph, ListItem, CodeBlock (a paragraph whose text is the   *)
(* code lines joined by newlines), Table, Rule (a paragraph of             *)
(* underscores) and Blank (a paragraph without runs).                      *)
(***************************************************************************)
NL == "\n"

RECURSIVE CollapseDisplayMath(_, _)
\* the pre-pass from index k: each match of \\\[(.*?)\\\] (DOTALL) is replaced
\* by itself with its newlines turned into spaces
CollapseDisplayMath(s, k) ==
  IF k >= Len(s) THEN <<>>
  ELSE LET end == Find(s, display_close, k + 2)
       IN  IF StartsAt(s, display_open, k) /\ end # -1
           THEN Replace(Slice(s, k, end + 2), <<NL>>, <<" ">>) \o CollapseDisplayMath(s, end + 2)
           ELSE <<s[k + 1]>> \o CollapseDisplayMath(s, k + 1)

\* the text that is split into lines
Preprocess(markdown_text, preserve_math) ==
  IF preserve_math THEN CollapseDisplayMath(markdown_text, 0) ELSE markdown_text

fence == <<BT, BT, BT>>

\* line.strip().startswith(fence), the fence being three backticks
IsFence(line) == StartsWith(Strip(line), fence)

\* line.strip() == '---'
IsRule(line) == Strip(line) = <<"-", "-", "-">>

\* the level of the heading branch the line takes, 0 when it takes none
HeadingLevel(line) ==
  IF StartsWith(line, <<"#", " ">>) /\ ~StartsWith(line, <<"#", "#", " ">>) THEN 1
  ELSE IF StartsWith(line, <<"#", "#", " ">>) /\ ~StartsWith(line, <<"#", "#", "#", " ">>) THEN 2
  ELSE IF StartsWith(line, <<"#", "#", "#", " ">>) THEN 3
  ELSE 0

\* line.strip().startswith('- ') or line.strip().startswith('* ')
IsBullet(line) ==
  StartsWith(Strip(line), <<"-", " ">>) \/ StartsWith(Strip(line), <<"*", " ">>)

RECURSIVE DigitsEnd(_, _)
DigitsEnd(s, k) == IF k < Len(s) /\ s[k + 1] \in Digits THEN DigitsEnd(s, k + 1) ELSE k

\* the length of the match of r'^\d+\.\s' in s, 0 when there is none
NumberPrefix(s) ==
  LET d == DigitsEnd(s, 0)
  IN  IF d > 0 /\ d + 1 < Len(s) /\ s[d + 1] = "." /\ s[d + 2] \in Whitespace
      THEN d + 2 ELSE 0

\* re.match(r'^\d+\.\s', line.strip())
IsNumbered(line) == NumberPrefix(Strip(line)) > 0

\* '|' in line and i + 1 < len(lines) and '|' in lines[i + 1]
IsTableStart(lines, i) ==
  HasPipe(lines[i + 1]) /\ i + 1 < Len(lines) /\ HasPipe(lines[i + 2])

\* the branch that the loop iteration at line i takes
Branch(lines, i, in_code_block) ==
  LET line == lines[i + 1]
  IN  IF IsTableStart(lines, i) /\ parse_table(lines, i).table_data # None THEN "table"
      ELSE IF IsFence(line) THEN "fence"
      ELSE IF in_code_block THEN "code"
      ELSE IF IsRule(line) THEN "rule"
      ELSE IF HeadingLevel(line) > 0 THEN "heading"
      ELSE IF IsBullet(line) THEN "bullet"
      ELSE IF IsNumbered(line) THEN "numbered"
      ELSE IF Strip(line) # <<>> THEN "paragraph"
      ELSE "blank"

\* RGBColor(0, 51, 102), RGBColor(51, 102, 153), RGBColor(102, 153, 204)
HeadingColor(level) ==
  CASE level = 1 -> <<0, 51, 102>>
    [] level = 2 -> <<51, 102, 153>>
    [] level = 3 -> <<102, 153, 204>>

\* if use_colors: for run in para.runs: run.font.color.rgb = ...
HeadingRuns(runs, level, use_colors) ==
  IF use_colors
  THEN [j \in 1..Len(runs) |-> [runs[j] EXCEPT !.color = HeadingColor(level)]]
  ELSE runs

\* doc.add_paragraph()
Blank == [kind |-> "Blank"]

\* doc.add_paragraph('_' * 50)
Rule == [kind |-> "Rule"]

\* doc.add_heading(title, 0)
TitleBlock(title) == [kind |-> "Heading", level |-> 0, runs |-> <<PlainRun(title)>>]

Heading(level, runs) == [kind |-> "Heading", level |-> level, runs |-> runs]

Paragraph(runs) == [kind |-> "Paragraph", runs |-> runs]

ListItem(ordered, runs) == [kind |-> "ListItem", ordered |-> ordered, runs |-> runs]

\* doc.add_paragraph('\n'.join(code_lines)), style Intense Quote
CodeBlock(code_lines) == [kind |-> "CodeBlock", lines |-> code_lines]

\* the blocks of the table branch: an empty paragraph, the table, an empty paragraph
TableBlocks(table_data) == <<Blank, RenderTable(table_data), Blank>>

\* the heading of the line: the text after the marker, formatted
HeadingBlock(line, use_colors, preserve_math) ==
  LET level == HeadingLevel(line)
      heading_text == SliceFrom(line, level + 1)
  IN  Heading(level, HeadingRuns(extract_and_format_text(heading_text, preserve_math),
                                 level, use_colors))

\* text = line.strip()[2:]
BulletBlock(line, preserve_math) ==
  ListItem(FALSE, extract_and_format_text(SliceFrom(Strip(line), 2), preserve_math))

\* text = re.sub(r'^\d+\.\s', '', line.strip())
NumberedBlock(line, preserve_math) ==
  LET s == Strip(line)
  IN  ListItem(TRUE, extract_and_format_text(SliceFrom(s, NumberPrefix(s)), preserve_math))

\* a regular paragraph, after an empty one when it ends a list
ParagraphBlocks(line, in_list, preserve_math) ==
  (IF in_list THEN <<Blank>> ELSE <<>>)
    \o <<Paragraph(extract_and_format_text(line, preserve_math))>>

\* the blank-line branch with its test inverted
BlankLineBlocksInList(in_list) == IF in_list THEN <<Blank>> ELSE <<>>

\* an empty line: if not in_list: doc.add_paragraph()
BlankLineBlocks(in_list) == IF ~in_list THEN <<Blank>> ELSE <<>>

\* the state of the call after the pre-pass and the split into lines
ParseStart(markdown_text, title, use_colors, preserve_math) ==
  [pc |-> "loop", markdown_text |-> markdown_text, title |-> title,
   use_colors |-> use_colors, preserve_math |-> preserve_math,
   lines |-> Split(Preprocess(markdown_text, preserve_math), NL),
   in_code_block |-> FALSE, code_lines |-> <<>>, in_list |-> FALSE, i |-> 0,
   doc |-> <<TitleBlock(title)>>]

\* the line the loop is at
CurrentLine(st) == st.lines[st.i + 1]

\* a table: its blocks are added and the loop resumes after its last line
TableStep(st) ==
  LET parsed == parse_table(st.lines, st.i)
  IN  [st EXCEPT !.doc = @ \o TableBlocks(parsed.table_data), !.i = parsed.end_idx]

\* a fence line closes the open code block, or opens one
FenceStep(st) ==
  IF st.in_code_block
  THEN [st EXCEPT !.doc = Append(@, CodeBlock(st.code_lines)),
                  !.code_lines = <<>>, !.in_code_block = FALSE, !.i = @ + 1]
  ELSE [st EXCEPT !.in_code_block = TRUE, !.i = @ + 1]

\* a line inside a code block is kept as it is
CodeLineStep(st) == [st EXCEPT !.code_lines = Append(@, CurrentLine(st)), !.i = @ + 1]

RuleStep(st) == [st EXCEPT !.doc = Append(@, Rule), !.i = @ + 1]

HeadingStep(st) ==
  [st EXCEPT !.doc = Append(@, HeadingBlock(CurrentLine(st), st.use_colors, st.preserve_math)),
             !.i = @ + 1]

BulletStep(st) ==
  [st EXCEPT !.doc = Append(@, BulletBlock(CurrentLine(st), st.preserve_math)),
             !.in_list = TRUE, !.i = @ + 1]

NumberedStep(st) ==
  [st EXCEPT !.doc = Append(@, NumberedBlock(CurrentLine(st), st.preserve_math)),
             !.in_list = TRUE, !.i = @ + 1]

ParagraphStep(st) ==
  [st EXCEPT !.doc = @ \o ParagraphBlocks(CurrentLine(st), st.in_list, st.preserve_math),
             !.in_list = FALSE, !.i = @ + 1]

BlankStep(st) == [st EXCEPT !.doc = @ \o BlankLineBlocks(st.in_list), !.i = @ + 1]

\* one iteration of: while i < len(lines)
ParseIteration(st) ==
  LET branch == Branch(st.lines, st.i, st.in_code_block)
  IN  CASE branch = "table" -> TableStep(st)
        [] branch = "fence" -> FenceStep(st)
        [] branch = "code" -> CodeLineStep(st)
        [] branch = "rule" -> RuleStep(st)
        [] branch = "heading" -> HeadingStep(st)
        [] branch = "bullet" -> BulletStep(st)
        [] branch = "numbered" -> NumberedStep(st)
        [] branch = "paragraph" -> ParagraphStep(st)
        [] branch = "blank" -> BlankStep(st)

RECURSIVE ParseLoop(_)
ParseLoop(st) == IF st.i < Len(st.lines) THEN ParseLoop(ParseIteration(st)) ELSE st

\* the blocks of the document that parse_markdown_to_docx returns
parse_markdown_to_docx(markdown_text, title, use_colors, preserve_math) ==
  ParseLoop(ParseStart(markdown_text, title, use_colors, preserve_math)).doc

(***************************************************************************)
(* A call of parse_markdown_to_docx, one line-loop iteration at a time.    *)
(***************************************************************************)
DocLines ==
  { <<"#", " ", "T">>,
    <<"#", "#", " ", BT, "c", BT>>,
    <<"#", "#", "#", " ", "a">>,
    <<>>,
    <<"p">>,
    <<"-", "-", "-">>,
    fence,
    <<"a", "|", "b">>,
    <<"-", " ", "x">>,
    <<"1", ".", " ", "x">>,
    display_open,
    <<"x">> \o display_close }

\* # Title, an empty line, plain text
ExampleDoc ==
  <<"#", " ", "T", "i", "t", "l", "e", NL, NL, "p", "l", "a", "i", "n", " ", "t", "e", "x", "t">>

\* the lines joined by newlines
DocOf(ls) == Join(ls, <<NL>>)

Docs == {DocOf(ls) : ls \in StringsUpTo(DocLines, MaxDocLines)} \cup {ExampleDoc}

DocTitle == <<"T">>

MdInit ==
  /\ md \in {[pc |-> "start", markdown_text |-> d, title |-> DocTitle,
              use_colors |-> uc, preserve_math |-> pm, lines |-> <<>>,
              in_code_block |-> FALSE, code_lines |-> <<>>, in_list |-> FALSE, i |-> 0,
              doc |-> <<>>] : d \in Docs, uc \in BOOLEAN, pm \in BOOLEAN}
  /\ tl = Idle
  /\ fm = Idle
  /\ tb = Idle

\* the title, the pre-pass, the split into lines and the loop variables
MdStart ==
  /\ md.pc = "start"
  /\ md' = ParseStart(md.markdown_text, md.title, md.use_colors, md.preserve_math)
  /\ UNCHANGED <<tl, fm, tb>>

\* the loop is at a line that takes the given branch
AtBranch(branch) ==
  /\ md.pc = "loop"
  /\ md.i < Len(md.lines)
  /\ Branch(md.lines, md.i, md.in_code_block) = branch

MdTable ==
  /\ AtBranch("table")
  /\ md' = TableStep(md)
  /\ UNCHANGED <<tl, fm, tb>>

MdFenceOpen ==
  /\ AtBranch("fence")
  /\ ~md.in_code_block
  /\ md' = FenceStep(md)
  /\ UNCHANGED <<tl, fm, tb>>

MdFenceClose ==
  /\ AtBranch("fence")
  /\ md.in_code_block
  /\ md' = FenceStep(md)
  /\ UNCHANGED <<tl, fm, tb>>

MdCodeLine ==
  /\ AtBranch("code")
  /\ md' = CodeLineStep(md)
  /\ UNCHANGED <<tl, fm, tb>>

MdRule ==
  /\ AtBranch("rule")
  /\ md' = RuleStep(md)
  /\ UNCHANGED <<tl, fm, tb>>

MdHeading ==
  /\ AtBranch("heading")
  /\ md' = HeadingStep(md)
  /\ UNCHANGED <<tl, fm, tb>>

MdBullet ==
  /\ AtBranch("bullet")
  /\ md' = BulletStep(md)
  /\ UNCHANGED <<tl, fm, tb>>

MdNumbered ==
  /\ AtBranch("numbered")
  /\ md' = NumberedStep(md)
  /\ UNCHANGED <<tl, fm, tb>>

MdParagraph ==
  /\ AtBranch("paragraph")
  /\ md' = ParagraphStep(md)
  /\ UNCHANGED <<tl, fm, tb>>

MdBlank ==
  /\ AtBranch("blank")
  /\ md' = BlankStep(md)
  /\ UNCHANGED <<tl, fm, tb>>

\* return doc
MdReturn ==
  /\ md.pc = "loop"
  /\ md.i >= Len(md.lines)
  /\ md' = [md EXCEPT !.pc = "done"]
  /\ UNCHANGED <<tl, fm, tb>>

MdNext ==
  \/ MdStart
  \/ MdTable
  \/ MdFenceOpen
  \/ MdFenceClose
  \/ MdCodeLine
  \/ MdRule
  \/ MdHeading
  \/ MdBullet
  \/ MdNumbered
  \/ MdParagraph
  \/ MdBlank
  \/ MdReturn

SpecParse == MdInit /\ [][MdNext]_vars

\* the indices below i of the fence lines
FencesBefore(lines, i) == {k \in 0..(i - 1) : IsFence(lines[k + 1])}

\* line i lies after an opening fence line that is not closed yet
InsideFence(lines, i) == Cardinality(FencesBefore(lines, i)) % 2 = 1

\* the index of the opening fence line of the fence that line i lies in
OpeningFence(lines, i) ==
  CHOOSE k \in FencesBefore(lines, i) : \A j \in FencesBefore(lines, i) : j <= k

(* C1: a line strictly between an opening fence and its closing fence is   *)
(* appended unchanged to the code buffer and adds no block (no table,      *)
(* heading, list item, rule or paragraph); the closing fence adds exactly  *)
(* one CodeBlock whose lines are the source lines between the two fences.  *)
C1_FenceContentVerbatim ==
  [][ (md.pc = "loop" /\ md.i < Len(md.lines) /\ InsideFence(md.lines, md.i)) =>
        IF IsFence(md.lines[md.i + 1])
        THEN md'.doc = Append(md.doc,
                              CodeBlock(Slice(md.lines, OpeningFence(md.lines, md.i) + 1, md.i)))
        ELSE /\ md'.code_lines = Append(md.code_lines, md.lines[md.i + 1])
             /\ md'.doc = md.doc ]_vars

(* C2: a Table block is added at line i only when line i contains a pipe   *)
(* and line i+1 contains the separator ---.                                *)
C2_TableNeedsSeparator ==
  [][ (md.pc = "loop" /\ md'.pc = "loop"
         /\ \E k \in (Len(md.doc) + 1)..Len(md'.doc) : md'.doc[k].kind = "Table")
       => /\ HasPipe(md.lines[md.i + 1])
          /\ md.i + 1 < Len(md.lines)
          /\ Contains(md.lines[md.i + 2], <<"-", "-", "-">>) ]_vars

\* the kind and text of each run, colors aside
Spans(runs) == [j \in 1..Len(runs) |-> [kind |-> runs[j].kind, text |-> runs[j].text]]

\* a block with its runs, if it has any, reduced to their kind and text
Uncolored(block) ==
  IF block.kind \in {"Heading", "Paragraph", "ListItem"}
  THEN [block EXCEPT !.runs = Spans(@)]
  ELSE block

\* a line that is a list item: a bullet or a number marker
IsListItem(line) == IsBullet(line) \/ IsNumbered(line)

\* the document has no pipe, no fence line and no list-item line
PlainDocument(markdown_text) ==
  LET source == Split(markdown_text, NL)
  IN  \A k \in 1..Len(source) :
         ~HasPipe(source[k]) /\ ~IsFence(source[k]) /\ ~IsListItem(source[k])

\* the block C10 gives a line
LineBlock(line, preserve_math) ==
  LET marker == CASE StartsWith(line, <<"#", " ">>) -> 1
                  [] StartsWith(line, <<"#", "#", " ">>) -> 2
                  [] StartsWith(line, <<"#", "#", "#", " ">>) -> 3
                  [] OTHER -> 0
  IN  IF marker > 0
      THEN Heading(marker, Spans(extract_and_format_text(SliceFrom(line, marker + 1), preserve_math)))
      ELSE IF Strip(line) = <<"-", "-", "-">> THEN Rule
      ELSE IF Strip(line) = <<>> THEN Blank
      ELSE Paragraph(Spans(extract_and_format_text(line, preserve_math)))

\* the title heading, then the block of each of the lines, in order
OneBlockPerLine(lines, title, preserve_math) ==
  <<Uncolored(TitleBlock(title))>> \o [k \in 1..Len(lines) |-> LineBlock(lines[k], preserve_math)]

(* C10 as stated: for a document with no pipe, no fence line and no        *)
(* list-item line the blocks are, after the title heading, one block per   *)
(* source line in source order: Heading, Rule, Blank or Paragraph.         *)
C10_OneBlockPerSourceLine ==
  (md.pc = "done" /\ PlainDocument(md.markdown_text)) =>
     [k \in 1..Len(md.doc) |-> Uncolored(md.doc[k])]
       = OneBlockPerLine(Split(md.markdown_text, NL), md.title, md.preserve_math)

(* C10 as amended: one block per line of the text that the pre-pass        *)
(* leaves, in which, with preserve_math on, the newlines inside each       *)
(* display-math region are spaces; the lines are the source lines when     *)
(* preserve_math is off.                                                   *)
C10_OneBlockPerCollapsedLine ==
  (md.pc = "done" /\ PlainDocument(md.markdown_text)) =>
     /\ [k \in 1..Len(md.doc) |-> Uncolored(md.doc[k])]
          = OneBlockPerLine(Split(Preprocess(md.markdown_text, md.preserve_math), NL),
                            md.title, md.preserve_math)
     /\ ~md.preserve_math =>
          [k \in 1..Len(md.doc) |-> Uncolored(md.doc[k])]
            = OneBlockPerLine(Split(md.markdown_text, NL), md.title, md.preserve_math)

C10_Witness ==
  /\ md.pc = "done"
  /\ md.markdown_text = ExampleDoc
  /\ [k \in 1..Len(md.doc) |-> Uncolored(md.doc[k])] =
       << Heading(0, <<[kind |-> "Plain", text |-> <<"T">>]>>),
          Heading(1, <<[kind |-> "Plain", text |-> <<"T", "i", "t", "l", "e">>]>>),
          Blank,
          Paragraph(<<[kind |-> "Plain",
                       text |-> <<"p", "l", "a", "i", "n", " ", "t", "e", "x", "t">>]>>) >>


(***************************************************************************)
(* The conversion as a whole: a call of any of the four functions, each    *)
(* taken one loop iteration at a time.                                     *)
(***************************************************************************)
ConvertInit == TlInit \/ FmInit \/ TbInit \/ MdInit

ConvertNext == TlNext \/ FmNext \/ TbNext \/ MdNext

SpecConvert == ConvertInit /\ [][ConvertNext]_vars

\* an iteration of the line loop of the block parser
LineLoopStep == md.pc = "loop" /\ md'.pc = "loop" /\ md' # md

\* an iteration of the character loop of the inline formatter
CharLoopStep == fm.pc = "loop" /\ fm'.pc = "loop" /\ fm' # fm

\* an iteration of the excess-brace loop of the transliterator
BraceLoopStep == tl.pc = "braces" /\ tl'.pc = "braces" /\ tl' # tl

(* C11: every scan advances its cursor strictly and stays within its       *)
(* input: an iteration of the line loop ends with a greater line index,    *)
(* at most len(lines), the table branch included; an iteration of the      *)
(* character loop ends with a greater character index, at most len(text);  *)
(* an iteration of the excess-brace loop removes exactly one closing       *)
(* brace, and the loop is left only when no closing brace is in excess.    *)
C11_ScansAdvance ==
  [][ /\ LineLoopStep => (md'.i > md.i /\ md'.i <= Len(md.lines) /\ md'.lines = md.lines)
      /\ CharLoopStep => (fm'.i > fm.i /\ fm'.i <= Len(fm.text) /\ fm'.text = fm.text)
      /\ BraceLoopStep =>
           /\ Count(tl'.result, "}") = Count(tl.result, "}") - 1
           /\ Len(tl'.result) = Len(tl.result) - 1
      /\ (tl.pc = "braces" /\ tl'.pc = "rewrite") => ~ExcessBrace(tl.result) ]_vars

\* the table branch has moved the line index past the two lines of a table
C11_Witness ==
  /\ md.pc = "loop"
  /\ md.i = 2
  /\ Len(md.lines) = 3
  /\ \E k \in 1..Len(md.doc) : md.doc[k].kind = "Table"

\* the color C12 gives a run of a heading of the given level, the run being
\* as the inline formatter made it
HeadingRunColor(run, level, use_colors) ==
  IF use_colors /\ run.color = NoColor THEN HeadingColor(level) ELSE run.color

(* C12: in a heading of level 1, 2 or 3 the runs are those of the inline   *)
(* formatter; with use_colors exactly the runs without a color of their    *)
(* own get the color of the level, and a run the formatter colored (inline *)
(* code, inline or display math) keeps its color; without use_colors no    *)
(* color is changed.                                                       *)
C12_HeadingKeepsExplicitColors ==
  [][ (md.pc = "loop" /\ md'.pc = "loop" /\ Len(md'.doc) = Len(md.doc) + 1
         /\ md'.doc[Len(md'.doc)].kind = "Heading")
       => LET heading == md'.doc[Len(md'.doc)]
              level == heading.level
              runs == extract_and_format_text(SliceFrom(md.lines[md.i + 1], level + 1),
                                              md.preserve_math)
          IN  heading.runs =
                [j \in 1..Len(runs) |->
                   [runs[j] EXCEPT !.color = HeadingRunColor(runs[j], level, md.use_colors)]]
    ]_vars

(* C13: when the block parser returns, the code buffer is empty: every     *)
(* line appended to it has been emitted in a CodeBlock, also when the      *)
(* document ends inside a fence that is never closed.                      *)
C13_NoCodeLineLost ==
  md.pc = "done" => md.code_lines = <<>>
=============================================================================
